---- MODULE Spec2Model ----
(***************************************************************************)
(* Timeline / interpolation core of ferrocious:                            *)
(*   core/mutator/timestamp.rs        TimeStamp                            *)
(*   core/interpolate/interpolators.rs Interpolatable, EasingFunction,     *)
(*                                     Interpolator                        *)
(* f32 values are modelled as rationals <<n, d>> in lowest terms with      *)
(* d > 0; a denominator of 0 stands for the non-finite result of a         *)
(* division by zero.  The result of each operation of lerp is rounded to   *)
(* the 24 significant bits of an f32 (to nearest, ties to even) once its   *)
(* magnitude reaches ExactBelow; below that the inputs used here (binary   *)
(* fractions with short numerators) are f32 values as they stand.  u32     *)
(* arithmetic is modelled on the naturals, far below the wrap-around       *)
(* point.                                                                  *)
(***************************************************************************)
EXTENDS Integers, Sequences, FiniteSets, TLC

\* ---- bounds of the explored inputs ----
MaxMinute == 1
MaxSecond == 1
MaxFrame == 1
MaxFps == 2
MaxRawSecond == 61
MaxRawFrame == 4
MaxRawFps == 3
MaxKeyframes == 3

\* ---- program constants ----
SecondsPerMinute == 60
LastSecond == 59

VARIABLES
    ts,        \* the TimeStamp receiver mutated by increment
    self0,     \* the receiver as it was when the last increment was called
    op,        \* the last operation performed
    fps,       \* the frame rate handed to increment / at
    interp,    \* the Interpolator under evaluation
    time,      \* the time handed to at
    progress,  \* Option: the local `progress` / `t` of the last at call
    result,    \* the value returned by the last at call
    base,      \* the TimeStamp as constructed, before any increment
    steps,     \* the number of increments applied to base
    a, b, c,   \* the TimeStamp operands of comparisons and range tests
    range,     \* Option: the Vec of [TimeStamp; 2] intervals of a range test
    out,       \* what the last comparison or range test returned
    builder,   \* the staged InterpolatorBuilder
    calls,     \* the builder methods called so far, with their arguments
    args,      \* the arguments of the function or loop under study
    ret,       \* Option: what that function returned
    working,   \* de_casteljau's local `working`
    passes,    \* the iterations of the running loop completed so far
    current_,  \* Canvas::save's local `current`
    sampled    \* the values of `current` the frame loop body has seen

loopVars == <<base, steps>>

cmpVars == <<a, b, c, range, out>>

buildVars == <<builder, calls>>

fnVars == <<args, ret, working, passes, current_, sampled>>

vars == <<ts, self0, op, fps, interp, time, progress, result, loopVars,
          cmpVars, buildVars, fnVars>>

\* ------------------------------------------------------------------------
\* f32 arithmetic (exact rationals)
\* ------------------------------------------------------------------------
Abs(x) == IF x < 0 THEN -x ELSE x

RECURSIVE GCD(_, _)
GCD(x, y) == IF y = 0 THEN x ELSE GCD(y, x % y)

Rat(n, d) ==
    IF d = 0 THEN <<n, 0>>
    ELSE LET g == GCD(Abs(n), Abs(d))
             s == IF d < 0 THEN -1 ELSE 1
         IN  <<(s * n) \div g, (s * d) \div g>>

F(n) == <<n, 1>>
FAdd(x, y) == Rat(x[1] * y[2] + y[1] * x[2], x[2] * y[2])
FSub(x, y) == Rat(x[1] * y[2] - y[1] * x[2], x[2] * y[2])
FMul(x, y) == Rat(x[1] * y[1], x[2] * y[2])
FDiv(x, y) == Rat(x[1] * y[2], x[2] * y[1])
FLt(x, y) == x[1] * y[2] < y[1] * x[2]
FLe(x, y) == x[1] * y[2] <= y[1] * x[2]
\* x <= y and x + y for operands whose denominators are long
FLeLong(x, y) ==
    LET g == GCD(x[2], y[2])
    IN  x[1] * (y[2] \div g) <= y[1] * (x[2] \div g)

FAddLong(x, y) ==
    LET g == GCD(x[2], y[2])
    IN  Rat(x[1] * (y[2] \div g) + y[1] * (x[2] \div g),
            (x[2] \div g) * y[2])

FClamp(x, lo, hi) == IF FLt(x, lo) THEN lo ELSE IF FLt(hi, x) THEN hi ELSE x

\* ---- rounding to f32 ----
\* significant bits of an f32
F32Digits == 24

\* magnitudes below this are taken as they stand
ExactBelow == 2 ^ 16

\* the spacing of f32 values around the integer m >= 2^(F32Digits - 1)
RECURSIVE UlpAbove(_)
UlpAbove(m) == IF m < 2 ^ F32Digits THEN 1 ELSE 2 * UlpAbove(m \div 2)

\* one over the spacing of f32 values around 0 < m < 2^F32Digits
RECURSIVE UlpBelow(_)
UlpBelow(m) == IF m >= 2 ^ (F32Digits - 1) THEN 1 ELSE 2 * UlpBelow(2 * m)

\* i or i + 1, whichever is nearest to i + rem_n / rem_d; the even one on a tie
NearestEven(i, rem_n, rem_d) ==
    IF 2 * rem_n < rem_d THEN i
    ELSE IF 2 * rem_n > rem_d THEN i + 1
    ELSE IF i % 2 = 0 THEN i ELSE i + 1

RECURSIVE IsPowerOfTwo(_)
IsPowerOfTwo(d) == d = 1 \/ (d % 2 = 0 /\ IsPowerOfTwo(d \div 2))

\* the integer m >= 0 cut to F32Digits significant bits
RoundBits(m) ==
    IF m < 2 ^ F32Digits THEN m
    ELSE LET u == UlpAbove(m) IN u * NearestEven(m \div u, m % u, u)

\* a binary fraction is rounded at any magnitude; another rational once its
\* magnitude reaches ExactBelow
round_f32(q) ==
    IF q[2] = 0 THEN q
    ELSE LET sign == IF q[1] < 0 THEN -1 ELSE 1
             m == Abs(q[1]) \div q[2]
             r == Abs(q[1]) % q[2]
         IN  IF Abs(q[1]) < 2 ^ F32Digits /\ m < ExactBelow THEN q
             ELSE IF IsPowerOfTwo(q[2])
             THEN Rat(sign * RoundBits(Abs(q[1])), q[2])
             ELSE IF m < ExactBelow THEN q
             ELSE IF m >= 2 ^ (F32Digits - 1)
             THEN LET u == UlpAbove(m)
                  IN  <<sign * u * NearestEven(m \div u, (m % u) * q[2] + r,
                                               u * q[2]), 1>>
             ELSE LET k == UlpBelow(m)
                  IN  Rat(sign * NearestEven(m * k + ((r * k) \div q[2]),
                                             (r * k) % q[2], q[2]), k)

\* half the bits of an f32 significand, as a factor
HalfWord == 2 ^ (F32Digits \div 2)

\* m * k / (d1 * d2) rounded, for significands m, k < 2^F32Digits whose
\* product is too long for one machine word and denominators that are
\* powers of two: the product is hi * 2^F32Digits + lo
mul_long(m, k, d1, d2) ==
    LET m1 == m \div HalfWord
        m0 == m % HalfWord
        k1 == k \div HalfWord
        k0 == k % HalfWord
        cross == m1 * k0 + m0 * k1
        low == (cross % HalfWord) * HalfWord + m0 * k0
        hi == m1 * k1 + (cross \div HalfWord) + (low \div 2 ^ F32Digits)
        lo == low % 2 ^ F32Digits
        shift == UlpBelow(hi)
        cut == 2 ^ F32Digits \div shift
        sig == NearestEven(hi * shift + (lo \div cut), lo % cut, cut)
    IN  IF d1 >= cut THEN Rat(sig, (d1 \div cut) * d2)
        ELSE IF d2 >= cut \div d1 THEN Rat(sig, d2 \div (cut \div d1))
        ELSE <<sig * ((cut \div d1) \div d2), 1>>

MaxWord == 2147483647

\* x * y rounded
mul_f32(x, y) ==
    IF x[1] = 0 \/ y[1] = 0 \/ x[2] = 0 \/ y[2] = 0
       \/ (Abs(x[1]) <= MaxWord \div Abs(y[1]) /\ x[2] <= MaxWord \div y[2])
    THEN round_f32(FMul(x, y))
    ELSE LET sign == IF (x[1] < 0) = (y[1] < 0) THEN 1 ELSE -1
             p == mul_long(Abs(x[1]), Abs(y[1]), x[2], y[2])
         IN  <<sign * p[1], p[2]>>

\* ------------------------------------------------------------------------
\* TimeStamp
\* ------------------------------------------------------------------------
new(minute, second, frame) ==
    [minute |-> minute, second |-> second, frame |-> frame]

as_num_frames(self, f) ==
    self.minute * SecondsPerMinute * f + self.second * f + self.frame

\* mutant of increment: the frame carries only once it exceeds fps
increment_late_carry(self, f) ==
    LET frame1 == self.frame + 1
        carry  == frame1 > f
        frame2 == IF carry THEN 0 ELSE frame1
        second2 == IF carry THEN self.second + 1 ELSE self.second
    IN  IF second2 > LastSecond
        THEN new(self.minute + 1, 0, frame2)
        ELSE new(self.minute, second2, frame2)

\* mutant of increment: the second carries one second early
increment_early_minute(self, f) ==
    LET frame1 == self.frame + 1
        carry  == frame1 >= f
        frame2 == IF carry THEN 0 ELSE frame1
        second2 == IF carry THEN self.second + 1 ELSE self.second
    IN  IF second2 >= LastSecond
        THEN new(self.minute + 1, 0, frame2)
        ELSE new(self.minute, second2, frame2)

\* mutant of increment: the minute carry is skipped when the frame carried
increment_single_carry(self, f) ==
    LET frame1 == self.frame + 1
        carry  == frame1 >= f
    IN  IF carry THEN new(self.minute, self.second + 1, 0)
        ELSE IF self.second > LastSecond THEN new(self.minute + 1, 0, frame1)
        ELSE new(self.minute, self.second, frame1)

\* mutant of increment: the frame carries one frame early
increment_early_frame(self, f) ==
    LET frame1 == self.frame + 1
        carry  == frame1 >= f - 1
        frame2 == IF carry THEN 0 ELSE frame1
        second2 == IF carry THEN self.second + 1 ELSE self.second
    IN  IF second2 > LastSecond
        THEN new(self.minute + 1, 0, frame2)
        ELSE new(self.minute, second2, frame2)

increment(self, f) ==
    LET frame1 == self.frame + 1
        carry  == frame1 >= f
        frame2 == IF carry THEN 0 ELSE frame1
        second2 == IF carry THEN self.second + 1 ELSE self.second
    IN  IF second2 > LastSecond
        THEN new(self.minute + 1, 0, frame2)
        ELSE new(self.minute, second2, frame2)

eq(self, other) ==
    /\ self.minute = other.minute
    /\ self.second = other.second
    /\ self.frame = other.frame

\* mutant of lt: a greater later field wins whatever the earlier fields are
lt_any_field(self, other) ==
    \/ other.minute > self.minute
    \/ other.second > self.second
    \/ other.frame > self.frame

lt(self, other) ==
    \/ other.minute > self.minute
    \/ /\ other.minute = self.minute
       /\ \/ other.second > self.second
          \/ (other.second = self.second /\ other.frame > self.frame)

le(self, other) == lt(self, other) \/ eq(self, other)

\* mutant of gt: equal frames count as greater
gt_or_equal_frame(self, other) ==
    \/ other.minute < self.minute
    \/ /\ other.minute = self.minute
       /\ \/ other.second < self.second
          \/ (other.second = self.second /\ other.frame <= self.frame)

gt(self, other) ==
    \/ other.minute < self.minute
    \/ /\ other.minute = self.minute
       /\ \/ other.second < self.second
          \/ (other.second = self.second /\ other.frame < self.frame)

ge(self, other) == gt(self, other) \/ eq(self, other)

partial_cmp(self, other) ==
    IF lt(self, other) THEN "Less"
    ELSE IF eq(self, other) THEN "Equal"
    ELSE "Greater"

\* mutant of in_range: the upper end of an interval is exclusive
in_range_half_open(self, intervals) ==
    \E i \in 1..Len(intervals) :
        le(intervals[i][1], self) /\ lt(self, intervals[i][2])

in_range(self, intervals) ==
    \E i \in 1..Len(intervals) :
        le(intervals[i][1], self) /\ le(self, intervals[i][2])

\* range is <<>> for None and <<intervals>> for Some(intervals)
matches_range(self, r) ==
    IF r = <<>> THEN TRUE ELSE in_range(self, r[1])

\* ------------------------------------------------------------------------
\* Interpolatable for f32, EasingFunction
\* ------------------------------------------------------------------------
\* mutant of lerp: scales other instead of the difference
lerp_scaled_other(self, other, t) == FAdd(self, FMul(other, t))

\* self + (other - self) * t, each operation rounded
lerp(self, other, t) ==
    round_f32(FAdd(self, round_f32(FMul(round_f32(FSub(other, self)), t))))

\* Interpolatable for [f32; 2]
lerp_2(self, other, t) ==
    <<lerp(self[1], other[1], t), lerp(self[2], other[2], t)>>

\* Interpolatable for [f32; 4]
lerp_4(self, other, t) ==
    <<lerp(self[1], other[1], t), lerp(self[2], other[2], t),
      lerp(self[3], other[3], t), lerp(self[4], other[4], t)>>

EasingFunction == {"Linear", "EaseIn", "EaseOut", "EaseInOut"}

\* the two branches of EaseInOut: 2.0 * t * t and -1.0 + (4.0 - 2.0 * t) * t,
\* each operation rounded
ease_in_out_low(t) == mul_f32(mul_f32(F(2), t), t)

ease_in_out_high(t) ==
    round_f32(FAdd(F(-1),
                   mul_f32(round_f32(FSub(F(4), mul_f32(F(2), t))), t)))

\* mutant of ease: the input is used as it comes
ease_unclamped(self, t0) ==
    LET t == t0
    IN  CASE self = "Linear" -> t
          [] self = "EaseIn" -> mul_f32(t, t)
          [] self = "EaseOut" -> mul_f32(t, round_f32(FSub(F(2), t)))
          [] self = "EaseInOut" ->
                IF FLt(t, <<1, 2>>) THEN ease_in_out_low(t)
                ELSE ease_in_out_high(t)

ease(self, t0) ==
    LET t == FClamp(t0, F(0), F(1))
    IN  CASE self = "Linear" -> t
          [] self = "EaseIn" -> mul_f32(t, t)
          [] self = "EaseOut" -> mul_f32(t, round_f32(FSub(F(2), t)))
          [] self = "EaseInOut" ->
                IF FLt(t, <<1, 2>>) THEN ease_in_out_low(t)
                ELSE ease_in_out_high(t)

\* ------------------------------------------------------------------------
\* Interpolator
\* ------------------------------------------------------------------------
\* mutant of compute_progress: the divisor is end's frame count
compute_progress_div_end(current, start, end, f) ==
    IF eq(start, end) THEN F(1)
    ELSE LET current_frames == as_num_frames(current, f)
             start_frames == as_num_frames(start, f)
             end_frames == as_num_frames(end, f)
         IN  IF current_frames <= start_frames THEN F(0)
             ELSE IF current_frames >= end_frames THEN F(1)
             ELSE FDiv(F(current_frames - start_frames), F(end_frames))

\* mutant of compute_progress: no clamp at the end of the range
compute_progress_no_end_clamp(current, start, end, f) ==
    IF eq(start, end) THEN F(1)
    ELSE LET current_frames == as_num_frames(current, f)
             start_frames == as_num_frames(start, f)
             end_frames == as_num_frames(end, f)
         IN  IF current_frames <= start_frames THEN F(0)
             ELSE FDiv(F(current_frames - start_frames),
                       F(end_frames - start_frames))

compute_progress(current, start, end, f) ==
    IF eq(start, end) THEN F(1)
    ELSE LET current_frames == as_num_frames(current, f)
             start_frames == as_num_frames(start, f)
             end_frames == as_num_frames(end, f)
         IN  IF current_frames <= start_frames THEN F(0)
             ELSE IF current_frames >= end_frames THEN F(1)
             ELSE FDiv(F(current_frames - start_frames),
                       F(end_frames - start_frames))

linear(from, to, start, end) ==
    [kind |-> "Linear", from |-> from, to |-> to, start |-> start,
     end |-> end, easing |-> "Linear"]

\* Linear arm of at: the local progress and the returned value
at_Linear(self, t, f) ==
    LET p == compute_progress(t, self.start, self.end, f)
        eased == ease(self.easing, p)
    IN  [panicked |-> FALSE, progress |-> <<p>>,
         value |-> lerp(F(self.from), F(self.to), eased)]

\* i, prev_idx, next_idx are the 0-based indices of the source; the loop
\* leaves at the first keyframe whose time is >= the evaluation time.
RECURSIVE find_surrounding(_, _, _, _, _)
find_surrounding(keyframes, t, i, prev_idx, next_idx) ==
    IF i >= Len(keyframes)
    THEN [prev_idx |-> prev_idx, next_idx |-> next_idx]
    ELSE LET kf_time == keyframes[i + 1].time
             p == IF le(kf_time, t) THEN i ELSE prev_idx
         IN  IF ge(kf_time, t) /\ next_idx = 0
             THEN [prev_idx |-> p, next_idx |-> i]
             ELSE find_surrounding(keyframes, t, i + 1, p, next_idx)

\* mutant of at_Keyframes: the at-or-past-the-last branch returns the first value
at_Keyframes_first(self, t, f) ==
    LET keyframes == self.keyframes
    IN  IF Len(keyframes) = 0
        THEN [panicked |-> TRUE, progress |-> <<>>, value |-> F(0)]
        ELSE LET idx == find_surrounding(keyframes, t, 0, 0, 0)
                 prev_idx == idx.prev_idx
                 next_idx == idx.next_idx
             IN  IF next_idx = 0 \/ prev_idx = Len(keyframes) - 1
                 THEN [panicked |-> FALSE, progress |-> <<>>,
                       value |-> F(keyframes[1].value)]
                 ELSE IF le(t, keyframes[1].time)
                 THEN [panicked |-> FALSE, progress |-> <<>>,
                       value |-> F(keyframes[1].value)]
                 ELSE LET start_kf == keyframes[prev_idx + 1]
                          end_kf == keyframes[next_idx + 1]
                          p == compute_progress(t, start_kf.time, end_kf.time, f)
                          eased == ease(self.easing, p)
                      IN  [panicked |-> FALSE, progress |-> <<p>>,
                           value |-> lerp(F(start_kf.value), F(end_kf.value), eased)]

\* mutant of at_Keyframes: the segment always starts at the first keyframe
at_Keyframes_from_first(self, t, f) ==
    LET keyframes == self.keyframes
    IN  IF Len(keyframes) = 0
        THEN [panicked |-> TRUE, progress |-> <<>>, value |-> F(0)]
        ELSE LET idx == find_surrounding(keyframes, t, 0, 0, 0)
                 prev_idx == idx.prev_idx
                 next_idx == idx.next_idx
             IN  IF next_idx = 0 \/ prev_idx = Len(keyframes) - 1
                 THEN [panicked |-> FALSE, progress |-> <<>>,
                       value |-> F(keyframes[Len(keyframes)].value)]
                 ELSE IF le(t, keyframes[1].time)
                 THEN [panicked |-> FALSE, progress |-> <<>>,
                       value |-> F(keyframes[1].value)]
                 ELSE LET start_kf == keyframes[1]
                          end_kf == keyframes[next_idx + 1]
                          p == compute_progress(t, start_kf.time, end_kf.time, f)
                          eased == ease(self.easing, p)
                      IN  [panicked |-> FALSE, progress |-> <<p>>,
                           value |-> lerp(F(start_kf.value), F(end_kf.value), eased)]

\* Keyframes arm of at
at_Keyframes(self, t, f) ==
    LET keyframes == self.keyframes
    IN  IF Len(keyframes) = 0
        THEN [panicked |-> TRUE, progress |-> <<>>, value |-> F(0)]
        ELSE LET idx == find_surrounding(keyframes, t, 0, 0, 0)
                 prev_idx == idx.prev_idx
                 next_idx == idx.next_idx
             IN  IF next_idx = 0 \/ prev_idx = Len(keyframes) - 1
                 THEN [panicked |-> FALSE, progress |-> <<>>,
                       value |-> F(keyframes[Len(keyframes)].value)]
                 ELSE IF le(t, keyframes[1].time)
                 THEN [panicked |-> FALSE, progress |-> <<>>,
                       value |-> F(keyframes[1].value)]
                 ELSE LET start_kf == keyframes[prev_idx + 1]
                          end_kf == keyframes[next_idx + 1]
                          p == compute_progress(t, start_kf.time, end_kf.time, f)
                          eased == ease(self.easing, p)
                      IN  [panicked |-> FALSE, progress |-> <<p>>,
                           value |-> lerp(F(start_kf.value), F(end_kf.value), eased)]

\* mutant of windows_lerp: non-overlapping pairs, as chunks(2) would give
windows_lerp_chunks(w, t) ==
    [i \in 1..(Len(w) \div 2) |-> lerp(w[2 * i - 1], w[2 * i], t)]

\* one pass of de_casteljau: the pairwise lerps of adjacent elements
windows_lerp(w, t) ==
    [i \in 1..(Len(w) - 1) |-> lerp(w[i], w[i + 1], t)]

\* defined for at least one point
RECURSIVE de_casteljau(_, _)
de_casteljau(points, t) ==
    IF Len(points) = 1 THEN points[1]
    ELSE de_casteljau(windows_lerp(points, t), t)

\* Constant arm of at
at_Constant(self, t, f) ==
    [panicked |-> FALSE, progress |-> <<>>, value |-> F(self.value)]

cubic(p0, p1, p2, p3, start, end) ==
    [kind |-> "Cubic", p0 |-> p0, p1 |-> p1, p2 |-> p2, p3 |-> p3,
     start |-> start, end |-> end]

bezier(points, start, end) ==
    [kind |-> "Bezier", points |-> points, start |-> start, end |-> end]

\* mutant of at_Cubic: r1 is taken between q0 and q2
at_Cubic_r1_from_q0(self, time_, f) ==
    LET t == compute_progress(time_, self.start, self.end, f)
        q0 == lerp(F(self.p0), F(self.p1), t)
        q1 == lerp(F(self.p1), F(self.p2), t)
        q2 == lerp(F(self.p2), F(self.p3), t)
        r0 == lerp(q0, q1, t)
        r1 == lerp(q0, q2, t)
    IN  [panicked |-> FALSE, progress |-> <<t>>, value |-> lerp(r0, r1, t)]

\* Cubic arm of at
at_Cubic(self, time_, f) ==
    LET t == compute_progress(time_, self.start, self.end, f)
        q0 == lerp(F(self.p0), F(self.p1), t)
        q1 == lerp(F(self.p1), F(self.p2), t)
        q2 == lerp(F(self.p2), F(self.p3), t)
        r0 == lerp(q0, q1, t)
        r1 == lerp(q1, q2, t)
    IN  [panicked |-> FALSE, progress |-> <<t>>, value |-> lerp(r0, r1, t)]

\* mutant of at_Bezier: an empty point sequence evaluates to zero
at_Bezier_empty_zero(self, time_, f) ==
    LET t == compute_progress(time_, self.start, self.end, f)
    IN  IF Len(self.points) = 0
        THEN [panicked |-> FALSE, progress |-> <<t>>, value |-> F(0)]
        ELSE [panicked |-> FALSE, progress |-> <<t>>,
              value |-> de_casteljau([i \in 1..Len(self.points) |->
                                         F(self.points[i])], t)]

\* Bezier arm of at; de_casteljau halts on an empty point sequence
at_Bezier(self, time_, f) ==
    LET t == compute_progress(time_, self.start, self.end, f)
    IN  IF Len(self.points) = 0
        THEN [panicked |-> TRUE, progress |-> <<t>>, value |-> F(0)]
        ELSE [panicked |-> FALSE, progress |-> <<t>>,
              value |-> de_casteljau([i \in 1..Len(self.points) |->
                                         F(self.points[i])], t)]

at(self, t, f) ==
    CASE self.kind = "Linear" -> at_Linear(self, t, f)
      [] self.kind = "Keyframes" -> at_Keyframes(self, t, f)
      [] self.kind = "Constant" -> at_Constant(self, t, f)
      [] self.kind = "Cubic" -> at_Cubic(self, t, f)
      [] self.kind = "Bezier" -> at_Bezier(self, t, f)

\* ------------------------------------------------------------------------
\* InterpolatorBuilder: Option fields are <<>> for None, <<x>> for Some(x)
\* ------------------------------------------------------------------------
from(value) ==
    [state |-> "NeedsTo", from |-> value, to_ |-> <<>>, easing |-> <<>>,
     control_points |-> <<>>]

to(self, to_) ==
    [state |-> "NeedsTime", from |-> self.from, to_ |-> <<to_>>,
     easing |-> <<>>, control_points |-> <<>>]

builder_ease(self, easing) == [self EXCEPT !.easing = <<easing>>]

\* mutant of through: the control point is put in front of the earlier ones
through_prepend(self, control_point) ==
    [self EXCEPT !.control_points = <<control_point>> \o @]

through(self, control_point) ==
    [self EXCEPT !.control_points = Append(@, control_point)]

\* mutant of over: two or more control points give the Cubic variant
over_cubic_from_two(self, start, end) ==
    LET num_controls == Len(self.control_points)
    IN  IF num_controls = 0
        THEN [kind |-> "Linear", from |-> self.from, to |-> self.to_[1],
              start |-> start, end |-> end,
              easing |-> IF self.easing = <<>> THEN "Linear"
                         ELSE self.easing[1]]
        ELSE IF num_controls >= 2
        THEN [kind |-> "Cubic", p0 |-> self.from,
              p1 |-> self.control_points[num_controls - 1],
              p2 |-> self.control_points[num_controls],
              p3 |-> self.to_[1], start |-> start, end |-> end]
        ELSE [kind |-> "Bezier",
              points |-> <<self.from>> \o self.control_points
                             \o <<self.to_[1]>>,
              start |-> start, end |-> end]

\* mutant of over: a builder with an easing set gives the Linear variant
over_eased_linear(self, start, end) ==
    LET num_controls == Len(self.control_points)
    IN  IF num_controls = 0 \/ self.easing # <<>>
        THEN [kind |-> "Linear", from |-> self.from, to |-> self.to_[1],
              start |-> start, end |-> end,
              easing |-> IF self.easing = <<>> THEN "Linear"
                         ELSE self.easing[1]]
        ELSE IF num_controls = 2
        THEN [kind |-> "Cubic", p0 |-> self.from,
              p1 |-> self.control_points[1], p2 |-> self.control_points[2],
              p3 |-> self.to_[1], start |-> start, end |-> end]
        ELSE [kind |-> "Bezier",
              points |-> <<self.from>> \o self.control_points
                             \o <<self.to_[1]>>,
              start |-> start, end |-> end]

over(self, start, end) ==
    LET num_controls == Len(self.control_points)
    IN  IF num_controls = 0
        THEN [kind |-> "Linear", from |-> self.from, to |-> self.to_[1],
              start |-> start, end |-> end,
              easing |-> IF self.easing = <<>> THEN "Linear"
                         ELSE self.easing[1]]
        ELSE IF num_controls = 2
        THEN [kind |-> "Cubic", p0 |-> self.from,
              p1 |-> self.control_points[1], p2 |-> self.control_points[2],
              p3 |-> self.to_[1], start |-> start, end |-> end]
        ELSE [kind |-> "Bezier",
              points |-> <<self.from>> \o self.control_points
                             \o <<self.to_[1]>>,
              start |-> start, end |-> end]

\* ------------------------------------------------------------------------
\* Explored inputs
\* ------------------------------------------------------------------------
Values == {0, 10}

TimeStamps ==
    [minute : 0..MaxMinute, second : 0..MaxSecond, frame : 0..MaxFrame]

RawTimeStamps ==
    [minute : 0..MaxMinute, second : 0..MaxRawSecond, frame : 0..MaxRawFrame]

LinearInterpolators ==
    [kind : {"Linear"}, from : Values, to : Values, start : TimeStamps,
     end : TimeStamps, easing : EasingFunction]

\* the times of keyframe tracks: every second and frame of minute 0, and the
\* start of the last minute
KeyTimes ==
    [minute : {0}, second : 0..MaxSecond, frame : 0..MaxFrame]
        \cup {new(MaxMinute, 0, 0)}

Keyframe == [time : KeyTimes, value : Values]

Ascending(keyframes) ==
    \A i \in 1..(Len(keyframes) - 1) :
        lt(keyframes[i].time, keyframes[i + 1].time)

KeyframeTracks ==
    UNION {{k \in [1..n -> Keyframe] : Ascending(k)} : n \in 0..MaxKeyframes}

KeyframesInterpolators ==
    [kind : {"Keyframes"}, keyframes : KeyframeTracks, easing : EasingFunction]

NoInterp == [kind |-> "None"]

\* test_linear_interpolator
TestFps == 24
TestLinear == linear(0, 10, new(0, 0, 0), new(0, 1, 0))
TestTimes == {new(0, 0, 0), new(0, 1, 0), new(0, 0, 12)}

\* test_timestamp_incrementer
TestStamp == new(1, 3, 2)

\* no comparison or range test in progress
IdleCompare ==
    /\ a = new(0, 0, 0)
    /\ b = new(0, 0, 0)
    /\ c = new(0, 0, 0)
    /\ range = <<>>
    /\ out = FALSE

NoBuilder == [state |-> "None"]

\* no builder in use
NoArgs == [fn |-> "None"]

IdleFn ==
    /\ args = NoArgs
    /\ ret = <<>>
    /\ working = <<>>
    /\ passes = 0
    /\ current_ = new(0, 0, 0)
    /\ sampled = <<>>

IdleBuilder ==
    /\ builder = NoBuilder
    /\ calls = <<>>

\* ------------------------------------------------------------------------
\* TimeStamp under construction and increment
\* ------------------------------------------------------------------------
InitTime ==
    /\ \/ /\ ts \in RawTimeStamps
          /\ fps \in 1..MaxRawFps
       \/ /\ ts = TestStamp
          /\ fps = TestFps
    /\ self0 = ts
    /\ base = ts
    /\ steps = 0
    /\ op = "new"
    /\ interp = NoInterp
    /\ time = new(0, 0, 0)
    /\ progress = <<>>
    /\ result = F(0)
    /\ IdleCompare
    /\ IdleBuilder
    /\ IdleFn

\* a fresh TimeStamp is constructed once the run of increments on the
\* previous one is over
New ==
    \E m \in 0..MaxMinute, s \in 0..MaxRawSecond, fr \in 0..MaxRawFrame :
        /\ steps > fps \/ ts.minute > MaxMinute
        /\ ts' = new(m, s, fr)
        /\ self0' = ts'
        /\ base' = ts'
        /\ steps' = 0
        /\ op' = "new"
        /\ UNCHANGED <<fps, interp, time, progress, result, cmpVars, buildVars, fnVars>>

\* as in test_timestamp_incrementer, a run of increments is at most fps + 1
\* calls long
Increment ==
    /\ ts.minute <= MaxMinute
    /\ steps <= fps
    /\ self0' = ts
    /\ steps' = steps + 1
    /\ base' = base
    /\ ts' = increment(ts, fps)
    /\ op' = "increment"
    /\ UNCHANGED <<fps, interp, time, progress, result, cmpVars, buildVars, fnVars>>

NextTime == New \/ Increment

Spec == InitTime /\ [][NextTime]_vars

\* ------------------------------------------------------------------------
\* Evaluation of an interpolator
\* ------------------------------------------------------------------------
InitEval ==
    /\ ts = new(0, 0, 0)
    /\ self0 = ts
    /\ base = ts
    /\ steps = 0
    /\ IdleCompare
    /\ IdleBuilder
    /\ IdleFn
    /\ op = "ready"
    /\ progress = <<>>
    /\ result = F(0)

InitLinear ==
    /\ InitEval
    /\ \/ /\ interp \in LinearInterpolators
          /\ time \in TimeStamps
          /\ fps \in 1..MaxFps
       \/ /\ interp = TestLinear
          /\ time \in TestTimes
          /\ fps = TestFps

InitKeyframes ==
    /\ InitEval
    /\ interp \in KeyframesInterpolators
    /\ time \in KeyTimes
    /\ fps \in 1..MaxFps

At ==
    /\ op = "ready"
    /\ LET r == at(interp, time, fps)
       IN  /\ op' = IF r.panicked THEN "panic" ELSE "at"
           /\ progress' = r.progress
           /\ result' = r.value
    /\ UNCHANGED <<ts, self0, fps, interp, time, loopVars, cmpVars, buildVars, fnVars>>

\* the caller evaluates the same interpolator again at another time
Resample ==
    /\ op = "at"
    /\ \E t \in (IF interp.kind = "Keyframes" THEN KeyTimes ELSE TimeStamps) :
        /\ time' = t
        /\ op' = "ready"
        /\ progress' = <<>>
        /\ result' = F(0)
    /\ UNCHANGED <<ts, self0, fps, interp, loopVars, cmpVars, buildVars, fnVars>>

NextEval == At \/ Resample

SpecLinear == InitLinear /\ [][NextEval]_vars

SpecKeyframes == InitKeyframes /\ [][NextEval]_vars

\* ------------------------------------------------------------------------
\* Comparison of TimeStamps
\* ------------------------------------------------------------------------
IdleTime ==
    /\ ts = new(0, 0, 0)
    /\ self0 = ts
    /\ base = ts
    /\ steps = 0
    /\ fps = 1

IdleEval ==
    /\ interp = NoInterp
    /\ time = new(0, 0, 0)
    /\ progress = <<>>
    /\ result = F(0)

\* every relational operator of PartialOrd / PartialEq applied to self, other
Comparison(self, other) ==
    [lt |-> lt(self, other), le |-> le(self, other),
     gt |-> gt(self, other), ge |-> ge(self, other),
     eq |-> eq(self, other), partial_cmp |-> partial_cmp(self, other)]

InitOrder ==
    /\ IdleTime
    /\ IdleEval
    /\ IdleBuilder
    /\ IdleFn
    /\ op = "ready"
    /\ a \in TimeStamps
    /\ b \in TimeStamps
    /\ c \in TimeStamps
    /\ range = <<>>
    /\ out = FALSE

Compare ==
    /\ op = "ready"
    /\ out' = [ab |-> Comparison(a, b), ba |-> Comparison(b, a),
               bc |-> Comparison(b, c), ac |-> Comparison(a, c),
               aa |-> Comparison(a, a)]
    /\ op' = "compare"
    /\ UNCHANGED <<ts, self0, fps, interp, time, progress, result, loopVars,
                   a, b, c, range, buildVars, fnVars>>

\* the next operands are compared
Recompare ==
    /\ op = "compare"
    /\ \E x \in TimeStamps :
        /\ a' = b
        /\ b' = c
        /\ c' = x
    /\ out' = FALSE
    /\ op' = "ready"
    /\ UNCHANGED <<ts, self0, fps, interp, time, progress, result, loopVars,
                   range, buildVars, fnVars>>

NextOrder == Compare \/ Recompare

SpecOrder == InitOrder /\ [][NextOrder]_vars

\* ------------------------------------------------------------------------
\* Range tests
\* ------------------------------------------------------------------------
MaxIntervals == 2

\* the interval ends: the first and last stamps of the explored frames,
\* seconds and minutes
RangeTimes ==
    {new(0, 0, 0), new(0, 0, MaxFrame), new(0, MaxSecond, 0),
     new(MaxMinute, 0, 0)}

IntervalLists ==
    UNION {[1..n -> RangeTimes \X RangeTimes] : n \in 0..MaxIntervals}

InitRange ==
    /\ IdleTime
    /\ IdleEval
    /\ IdleBuilder
    /\ IdleFn
    /\ op = "ready"
    /\ a \in TimeStamps
    /\ b = new(0, 0, 0)
    /\ c = new(0, 0, 0)
    /\ range \in {<<>>} \cup {<<v>> : v \in IntervalLists}
    /\ out = FALSE

InRange ==
    /\ op = "ready"
    /\ range # <<>>
    /\ out' = in_range(a, range[1])
    /\ op' = "in_range"
    /\ UNCHANGED <<ts, self0, fps, interp, time, progress, result, loopVars,
                   a, b, c, range, buildVars, fnVars>>

MatchesRange ==
    /\ op = "ready"
    /\ out' = matches_range(a, range)
    /\ op' = "matches_range"
    /\ UNCHANGED <<ts, self0, fps, interp, time, progress, result, loopVars,
                   a, b, c, range, buildVars, fnVars>>

NextRange == InRange \/ MatchesRange

SpecRange == InitRange /\ [][NextRange]_vars

\* ------------------------------------------------------------------------
\* Staged construction of an interpolator, then its evaluation
\* ------------------------------------------------------------------------
MaxCalls == 3

\* test_builder_two_controls_uses_cubic, test_bezier_quadratic_one_control_point
ControlValues == {3, 7}

\* a one-second range from the origin and a degenerate range
OverRanges ==
    {<<new(0, 0, 0), new(0, MaxSecond, 0)>>,
     <<new(0, 0, MaxFrame), new(0, 0, MaxFrame)>>}

Call(m, arg) == [m |-> m, arg |-> arg]

InitBuilder ==
    /\ ts = new(0, 0, 0)
    /\ self0 = ts
    /\ base = ts
    /\ steps = 0
    /\ fps \in 1..MaxFps
    /\ IdleEval
    /\ IdleCompare
    /\ IdleBuilder
    /\ IdleFn
    /\ op = "start"

BuilderStep(next, call) ==
    /\ builder' = next
    /\ calls' = Append(calls, call)
    /\ UNCHANGED <<ts, self0, op, fps, interp, time, progress, result,
                   loopVars, cmpVars, fnVars>>

\* Interpolator::from
From ==
    /\ builder.state = "None"
    /\ \E v \in Values : BuilderStep(from(v), Call("from", v))

\* impl InterpolatorBuilder<T, NeedsTo>
To ==
    /\ builder.state = "NeedsTo"
    /\ \E v \in Values : BuilderStep(to(builder, v), Call("to", v))

\* impl InterpolatorBuilder<T, NeedsTime>
Ease ==
    /\ builder.state = "NeedsTime"
    /\ Len(calls) < MaxCalls + 2
    /\ \E e \in EasingFunction :
          BuilderStep(builder_ease(builder, e), Call("ease", e))

\* mutant of Through: through is offered at every stage of the builder
Through_any_stage ==
    /\ builder.state \in {"NeedsTo", "NeedsTime"}
    /\ Len(calls) < MaxCalls + 2
    /\ \E cp \in ControlValues :
          BuilderStep(through(builder, cp), Call("through", cp))

Through ==
    /\ builder.state = "NeedsTime"
    /\ Len(calls) < MaxCalls + 2
    /\ \E cp \in ControlValues :
          BuilderStep(through(builder, cp), Call("through", cp))

\* over takes the builder by value: it is gone afterwards
Over ==
    /\ builder.state = "NeedsTime"
    /\ \E r \in OverRanges :
        /\ interp' = over(builder, r[1], r[2])
        /\ calls' = Append(calls, Call("over", r))
    /\ builder' = [state |-> "Consumed"]
    /\ op' = "over"
    /\ UNCHANGED <<ts, self0, fps, time, progress, result, loopVars, cmpVars, fnVars>>

\* the caller picks the time at which the built interpolator is evaluated
Sample ==
    /\ op = "over"
    /\ time' \in RangeTimes
    /\ op' = "ready"
    /\ UNCHANGED <<ts, self0, fps, interp, progress, result, loopVars,
                   cmpVars, buildVars, fnVars>>

NextBuilder == From \/ To \/ Ease \/ Through \/ Over \/ Sample \/ At

SpecBuilder == InitBuilder /\ [][NextBuilder]_vars

\* ------------------------------------------------------------------------
\* Evaluation of Cubic and Bezier curves
\* ------------------------------------------------------------------------
MaxPoints == 4

\* 2^25 and 1 differ by more than an f32 holds
CurveValues == {0, 1, 2 ^ 25}

PointSeqs == UNION {[1..n -> CurveValues] : n \in 0..MaxPoints}

\* a one-second range from the origin and a degenerate range
CurveRanges ==
    {<<new(0, 0, 0), new(0, 1, 0)>>, <<new(0, 0, 1), new(0, 0, 1)>>}

CurveFps == {1, 2}

CurveInterpolators ==
    {bezier(ps, r[1], r[2]) : ps \in PointSeqs, r \in CurveRanges}
    \cup {cubic(ps[1], ps[2], ps[3], ps[4], r[1], r[2]) :
             ps \in [1..4 -> CurveValues], r \in CurveRanges}

InitCurves ==
    /\ InitEval
    /\ interp \in CurveInterpolators
    /\ time \in TimeStamps
    /\ fps \in CurveFps

SpecCurves == InitCurves /\ [][NextEval]_vars

\* ------------------------------------------------------------------------
\* Evaluation of interpolators with no or one keyframe or point
\* ------------------------------------------------------------------------
ShortInterpolators ==
    {i \in KeyframesInterpolators : Len(i.keyframes) <= 1}
    \cup {i \in CurveInterpolators : i.kind = "Bezier" /\ Len(i.points) <= 1}

InitShort ==
    /\ InitEval
    /\ interp \in ShortInterpolators
    /\ time \in KeyTimes
    /\ fps \in 1..MaxFps

SpecShort == InitShort /\ [][NextEval]_vars

\* ------------------------------------------------------------------------
\* de_casteljau, one loop iteration at a time
\* ------------------------------------------------------------------------
CurveParams == {F(0), Rat(1, 2), F(1)}

IdleCurve ==
    /\ IdleTime
    /\ IdleEval
    /\ IdleCompare
    /\ IdleBuilder

InitCasteljau ==
    /\ IdleCurve
    /\ \E ps \in PointSeqs, t \in CurveParams :
          args = [fn |-> "de_casteljau",
                  points |-> [i \in 1..Len(ps) |-> F(ps[i])], t |-> t]
    /\ ret = <<>>
    /\ working = <<>>
    /\ passes = 0
    /\ current_ = new(0, 0, 0)
    /\ sampled = <<>>
    /\ op = "call"

\* entry: the assertion, the single-point return, the copy into `working`;
\* without the assertion an empty `working` halts at remove(0)
Enter ==
    /\ op = "call"
    /\ IF Len(args.points) = 0
       THEN /\ op' = "panic"
            /\ UNCHANGED <<ret, working>>
       ELSE IF Len(args.points) = 1
       THEN /\ op' = "return"
            /\ ret' = <<args.points[1]>>
            /\ UNCHANGED working
       ELSE /\ op' = "loop"
            /\ working' = args.points
            /\ UNCHANGED ret
    /\ UNCHANGED <<ts, self0, fps, interp, time, progress, result, loopVars,
                   cmpVars, buildVars, args, passes, current_, sampled>>

\* one iteration of `while working.len() > 1`
Pass ==
    /\ op = "loop"
    /\ Len(working) > 1
    /\ working' = windows_lerp(working, args.t)
    /\ passes' = passes + 1
    /\ UNCHANGED <<ts, self0, op, fps, interp, time, progress, result,
                   loopVars, cmpVars, buildVars, args, ret, current_, sampled>>

\* working.remove(0)
Return ==
    /\ op = "loop"
    /\ ~(Len(working) > 1)
    /\ ret' = <<Head(working)>>
    /\ working' = Tail(working)
    /\ op' = "return"
    /\ UNCHANGED <<ts, self0, fps, interp, time, progress, result, loopVars,
                   cmpVars, buildVars, args, passes, current_, sampled>>

NextCasteljau == Enter \/ Pass \/ Return

\* the steps of NextCasteljau as seen on the program position and the loop
\* counter alone
Scheduled ==
    \/ /\ op = "call"
       /\ op' \in {"loop", "return", "panic"}
       /\ passes' = passes
    \/ /\ op = "loop"
       /\ Len(working) > 1
       /\ op' = op
       /\ passes' = passes + 1
    \/ /\ op = "loop"
       /\ ~(Len(working) > 1)
       /\ op' = "return"
       /\ passes' = passes

\* the function runs on one thread, from its call to its return: while a
\* step is possible, one is taken
SpecCasteljau ==
    InitCasteljau /\ [][NextCasteljau]_vars /\ WF_<<op, passes>>(Scheduled)

\* ------------------------------------------------------------------------
\* Interpolatable::lerp on f32, [f32; 2] and [f32; 4]
\* ------------------------------------------------------------------------
LerpValues == {F(v) : v \in CurveValues}

\* [f32; 4] operands mix the smallest and the largest of the values
LerpOperands ==
    [type : {"f32"}, self : LerpValues, other : LerpValues]
    \cup [type : {"[f32; 2]"}, self : LerpValues \X LerpValues,
          other : LerpValues \X LerpValues]
    \cup [type : {"[f32; 4]"}, self : [1..4 -> {F(1), F(2 ^ 25)}],
          other : [1..4 -> {F(1), F(2 ^ 25)}]]

\* t inside, at the ends of and beyond [0, 1]
LerpParams == CurveParams \cup {F(2)}

InitLerp ==
    /\ IdleCurve
    /\ \E o \in LerpOperands, t \in LerpParams :
          args = [fn |-> "lerp", type |-> o.type, self |-> o.self,
                  other |-> o.other, t |-> t]
    /\ ret = <<>>
    /\ working = <<>>
    /\ passes = 0
    /\ current_ = new(0, 0, 0)
    /\ sampled = <<>>
    /\ op = "call"

Lerp ==
    /\ op = "call"
    /\ args.fn = "lerp"
    /\ ret' = <<CASE args.type = "f32" -> lerp(args.self, args.other, args.t)
                  [] args.type = "[f32; 2]" ->
                        lerp_2(args.self, args.other, args.t)
                  [] args.type = "[f32; 4]" ->
                        lerp_4(args.self, args.other, args.t)>>
    /\ op' = "return"
    /\ UNCHANGED <<ts, self0, fps, interp, time, progress, result, loopVars,
                   cmpVars, buildVars, args, working, passes, current_,
                   sampled>>

SpecLerp == InitLerp /\ [][Lerp]_vars

\* ------------------------------------------------------------------------
\* EasingFunction::ease
\* ------------------------------------------------------------------------
\* sixteenths from below 0.0 to above 1.0
GridSteps == 16
GridInputs == {Rat(k, GridSteps) : k \in -4..20}

\* neighbouring f32 values: 0.88079077 and 0.88079083, 0.47019798 and
\* 0.47019801
NearbyInputs ==
    {Rat(14777217, 2 ^ 24), Rat(14777218, 2 ^ 24),
     Rat(15777226, 2 ^ 25), Rat(15777227, 2 ^ 25)}

EaseInputs == GridInputs \cup NearbyInputs

InitEase ==
    /\ IdleCurve
    /\ \E e \in EasingFunction, t \in EaseInputs :
          args = [fn |-> "ease", self |-> e, t |-> t]
    /\ ret = <<>>
    /\ working = <<>>
    /\ passes = 0
    /\ current_ = new(0, 0, 0)
    /\ sampled = <<>>
    /\ op = "call"

ApplyEase ==
    /\ op = "call"
    /\ args.fn = "ease"
    /\ ret' = <<ease(args.self, args.t)>>
    /\ op' = "return"
    /\ UNCHANGED <<ts, self0, fps, interp, time, progress, result, loopVars,
                   cmpVars, buildVars, args, working, passes, current_,
                   sampled>>

SpecEase == InitEase /\ [][ApplyEase]_vars

\* ------------------------------------------------------------------------
\* mutator/timestamp.rs: the comparison operators of the earlier TimeStamp
\* ------------------------------------------------------------------------
\* PartialEq::eq
legacy_eq(self, other) ==
    /\ self.minute = other.minute
    /\ self.second = other.second
    /\ self.frame = other.frame

\* PartialOrd::lt; the seconds of self are compared with the minutes of other
legacy_lt(self, other) ==
    IF self.minute < other.minute THEN TRUE
    ELSE IF self.minute = other.minute
         THEN IF self.second < other.minute THEN TRUE
              ELSE IF self.second = other.minute
                   THEN self.frame < other.frame
                   ELSE FALSE
         ELSE FALSE

\* PartialOrd::gt; the seconds of self are compared with the minutes of other
legacy_gt(self, other) ==
    IF self.minute > other.minute THEN TRUE
    ELSE IF self.minute = other.minute
         THEN IF self.second > other.minute THEN TRUE
              ELSE IF self.second = other.minute
                   THEN self.frame > other.frame
                   ELSE FALSE
         ELSE FALSE

\* test_timestamp_lt, test_timestamp_gt
TestLess == new(1, 3, 2)
TestMore == new(3, 0, 4)

LegacyStamps == TimeStamps \cup {TestLess, TestMore}

LegacyComparison(self, other) ==
    [lt |-> legacy_lt(self, other), gt |-> legacy_gt(self, other),
     eq |-> legacy_eq(self, other)]

InitLegacy ==
    /\ IdleTime
    /\ IdleEval
    /\ IdleBuilder
    /\ IdleFn
    /\ op = "ready"
    /\ a \in LegacyStamps
    /\ b \in LegacyStamps
    /\ c = new(0, 0, 0)
    /\ range = <<>>
    /\ out = FALSE

LegacyCompare ==
    /\ op = "ready"
    /\ out' = [ab |-> LegacyComparison(a, b), ba |-> LegacyComparison(b, a)]
    /\ op' = "compare"
    /\ UNCHANGED <<ts, self0, fps, interp, time, progress, result, loopVars,
                   a, b, c, range, buildVars, fnVars>>

SpecLegacy == InitLegacy /\ [][LegacyCompare]_vars

\* ------------------------------------------------------------------------
\* Canvas::save: the frame loop, one iteration at a time
\* ------------------------------------------------------------------------
\* the `end` handed to save: every stamp of the first seconds and minutes,
\* and one in the last second of a minute
SaveEnds == TimeStamps \cup {new(0, LastSecond, 0)}

InitSave ==
    /\ ts = new(0, 0, 0)
    /\ self0 = ts
    /\ base = ts
    /\ steps = 0
    /\ fps \in 1..MaxFps
    /\ IdleEval
    /\ IdleCompare
    /\ IdleBuilder
    /\ \E end \in SaveEnds : args = [fn |-> "save", end |-> end]
    /\ ret = <<>>
    /\ working = <<>>
    /\ passes = 0
    /\ current_ = new(0, 0, 0)
    /\ sampled = <<>>
    /\ op = "call"

\* let mut current_frame = TimeStamp::new_with_defaults(None, None, None)
EnterSave ==
    /\ op = "call"
    /\ current_' = new(0, 0, 0)
    /\ op' = "loop"
    /\ UNCHANGED <<ts, self0, fps, interp, time, progress, result, loopVars,
                   cmpVars, buildVars, args, ret, working, passes, sampled>>

\* mutant of Continues: the loop runs while current_frame <= end
Continues_inclusive == le(current_, args.end)

\* while current_frame < end
Continues == lt(current_, args.end)

\* one iteration: the render pass is cleared with the background colour at
\* current_frame, current_frame is incremented, and the entities are
\* filtered and rendered at the incremented current_frame
Frame ==
    /\ op = "loop"
    /\ Continues
    /\ current_' = increment(current_, fps)
    /\ sampled' = Append(sampled, [clear |-> current_,
                                   entities |-> increment(current_, fps)])
    /\ passes' = passes + 1
    /\ UNCHANGED <<ts, self0, op, fps, interp, time, progress, result,
                   loopVars, cmpVars, buildVars, args, ret, working>>

\* encoder.finish()
Finish ==
    /\ op = "loop"
    /\ ~Continues
    /\ op' = "return"
    /\ UNCHANGED <<ts, self0, fps, interp, time, progress, result, loopVars,
                   cmpVars, buildVars, args, ret, working, passes, current_,
                   sampled>>

NextSave == EnterSave \/ Frame \/ Finish

\* save runs on one thread, from its call to its return: while a step is
\* possible, one is taken
SpecSave == InitSave /\ [][NextSave]_vars /\ WF_vars(NextSave)

\* ------------------------------------------------------------------------
\* TimeStamp order and frame counts side by side
\* ------------------------------------------------------------------------
\* stamps of the first and last seconds of the first minutes; those with
\* frame >= fps are not normalised
AgreeMinutes == {0, 1}

AgreeStamps ==
    [minute : AgreeMinutes, second : (0..MaxSecond) \cup {LastSecond},
     frame : 0..MaxFrame]

\* the keyframe track through the two stamps, earlier one first
TrackThrough(x, y) ==
    [kind |-> "Keyframes",
     keyframes |->
         IF lt(x, y)
         THEN <<[time |-> x, value |-> 0], [time |-> y, value |-> 10]>>
         ELSE IF lt(y, x)
         THEN <<[time |-> y, value |-> 0], [time |-> x, value |-> 10]>>
         ELSE <<[time |-> x, value |-> 0]>>,
     easing |-> "Linear"]

InitAgree ==
    /\ fps \in 1..MaxFps
    /\ a \in AgreeStamps
    /\ b \in AgreeStamps
    /\ c \in AgreeStamps
    /\ range = <<>>
    /\ out = FALSE
    /\ ts = a
    /\ self0 = ts
    /\ base = ts
    /\ steps = 0
    /\ interp = TrackThrough(a, b)
    /\ time = c
    /\ progress = <<>>
    /\ result = F(0)
    /\ IdleBuilder
    /\ IdleFn
    /\ op = "ready"

\* a.increment(fps)
Advance ==
    /\ op = "ready"
    /\ Increment

NextAgree == Compare \/ At \/ Advance

SpecAgree == InitAgree /\ [][NextAgree]_vars

\* ------------------------------------------------------------------------
\* Properties
\* ------------------------------------------------------------------------
Evaluated(kind) == op = "at" /\ interp.kind = kind

First(keyframes) == keyframes[1]
Last(keyframes) == keyframes[Len(keyframes)]

\* C1: a Keyframes interpolator with at least two strictly ascending
\* keyframes, evaluated at a time before the first keyframe, returns the
\* first keyframe's value.
C1_BeforeFirstReturnsFirst ==
    (/\ Evaluated("Keyframes")
     /\ Len(interp.keyframes) >= 2
     /\ Ascending(interp.keyframes)
     /\ lt(time, First(interp.keyframes).time))
    => result = F(First(interp.keyframes).value)

\* C2: a Keyframes interpolator with strictly ascending keyframes, evaluated
\* at exactly the time of keyframe k (first and last included), returns
\* keyframe k's value.
C2_AtKeyframeReturnsItsValue ==
    (/\ Evaluated("Keyframes")
     /\ Len(interp.keyframes) >= 1
     /\ Ascending(interp.keyframes))
    => \A k \in 1..Len(interp.keyframes) :
          eq(time, interp.keyframes[k].time)
          => result = F(interp.keyframes[k].value)

C4_EqualFrameCountsGiveOne ==
    (/\ Evaluated("Linear")
     /\ as_num_frames(interp.start, fps) = as_num_frames(interp.end, fps))
    => progress = <<F(1)>>

\* the value C5 states for compute_progress: 0 at or before start, else 1 at
\* or past end, else the fraction of the span covered
C5_StatedProgress(current_frames, start_frames, end_frames) ==
    IF current_frames <= start_frames THEN F(0)
    ELSE IF current_frames >= end_frames THEN F(1)
    ELSE Rat(current_frames - start_frames, end_frames - start_frames)

\* C5 as stated: for all current, start, end and fps compute_progress is in
\* [0,1], 0 when current's frame count is <= start's, 1 when it is >= end's,
\* the fraction otherwise, and never divides by zero.
C5_ProgressByFrameCounts ==
    Evaluated("Linear")
    => /\ Len(progress) = 1
       /\ progress[1][2] # 0
       /\ FLe(F(0), progress[1]) /\ FLe(progress[1], F(1))
       /\ progress[1] = C5_StatedProgress(as_num_frames(time, fps),
                                          as_num_frames(interp.start, fps),
                                          as_num_frames(interp.end, fps))

\* C5 amended: compute_progress is 1 when start and end are the same
\* TimeStamp; otherwise 0 when current's frame count is <= start's, 1 when it
\* is >= end's, the fraction otherwise; it is always in [0,1] and never
\* divides by zero.
C5_Progress ==
    Evaluated("Linear")
    => /\ Len(progress) = 1
       /\ progress[1][2] # 0
       /\ FLe(F(0), progress[1]) /\ FLe(progress[1], F(1))
       /\ progress[1] =
            IF eq(interp.start, interp.end) THEN F(1)
            ELSE C5_StatedProgress(as_num_frames(time, fps),
                                   as_num_frames(interp.start, fps),
                                   as_num_frames(interp.end, fps))

C5_Witness ==
    /\ Evaluated("Linear")
    /\ as_num_frames(interp.start, fps) < as_num_frames(time, fps)
    /\ as_num_frames(time, fps) < as_num_frames(interp.end, fps)
    /\ progress = <<(<<1, 3>>)>>

\* C6: a Keyframes interpolator with strictly ascending keyframes, evaluated
\* at or past the last keyframe's time, returns the last keyframe's value.
C6_AtOrPastLastReturnsLast ==
    (/\ Evaluated("Keyframes")
     /\ Len(interp.keyframes) >= 1
     /\ Ascending(interp.keyframes)
     /\ ge(time, Last(interp.keyframes).time))
    => result = F(Last(interp.keyframes).value)

C6_Witness ==
    /\ Evaluated("Keyframes")
    /\ Len(interp.keyframes) >= 2
    /\ gt(time, Last(interp.keyframes).time)
    /\ First(interp.keyframes).value # Last(interp.keyframes).value
    /\ result = F(Last(interp.keyframes).value)

\* C7: a Keyframes interpolator with strictly ascending keyframes, evaluated
\* strictly between consecutive keyframes i and i+1, returns
\* v_i.lerp(v_i+1, easing.ease(compute_progress(time, t_i, t_i+1, fps))).
C7_BetweenAdjacentKeyframes ==
    (/\ Evaluated("Keyframes")
     /\ Ascending(interp.keyframes))
    => \A i \in 1..(Len(interp.keyframes) - 1) :
          (/\ lt(interp.keyframes[i].time, time)
           /\ lt(time, interp.keyframes[i + 1].time))
          => LET p == compute_progress(time, interp.keyframes[i].time,
                                       interp.keyframes[i + 1].time, fps)
             IN  /\ progress = <<p>>
                 /\ result = lerp(F(interp.keyframes[i].value),
                                  F(interp.keyframes[i + 1].value),
                                  ease(interp.easing, p))

C7_Witness ==
    /\ Evaluated("Keyframes")
    /\ Len(interp.keyframes) = 3
    /\ lt(interp.keyframes[2].time, time)
    /\ lt(time, interp.keyframes[3].time)
    /\ interp.keyframes[1].value # interp.keyframes[2].value
    /\ interp.keyframes[2].value # interp.keyframes[3].value
    /\ interp.easing = "EaseIn"
    /\ progress = <<(<<1, 2>>)>>
    /\ result \notin {F(0), F(10)}

C9_IncrementNormalizes ==
    op = "increment" => (ts.frame < fps /\ ts.second < SecondsPerMinute)

C9_Witness ==
    /\ op = "increment"
    /\ self0.second > SecondsPerMinute
    /\ self0.frame > fps
    /\ ts.frame < fps
    /\ ts.second < SecondsPerMinute

C12_DoubleCarry ==
    (/\ op = "increment"
     /\ self0.second = LastSecond
     /\ self0.frame \in {fps - 1, fps})
    => ts = new(self0.minute + 1, 0, 0)

C12_Witness ==
    /\ op = "increment"
    /\ self0 = new(1, LastSecond, fps)
    /\ ts = new(2, 0, 0)

LexRank(x) ==
    (x.minute * (MaxSecond + 1) + x.second) * (MaxFrame + 1) + x.frame

\* C15: < on TimeStamps is the strict lexicographic order on (minute,
\* second, frame) and a strict total order: exactly one of a < b, a == b,
\* b < a holds, < is irreflexive and transitive, and == holds iff all three
\* fields are equal.
C15_StrictLexicographicOrder ==
    op = "compare"
    => /\ out.ab.lt <=> LexRank(a) < LexRank(b)
       /\ \/ (out.ab.lt /\ ~out.ab.eq /\ ~out.ba.lt)
          \/ (~out.ab.lt /\ out.ab.eq /\ ~out.ba.lt)
          \/ (~out.ab.lt /\ ~out.ab.eq /\ out.ba.lt)
       /\ ~out.aa.lt
       /\ (out.ab.lt /\ out.bc.lt) => out.ac.lt
       /\ out.ab.eq <=> (/\ a.minute = b.minute
                         /\ a.second = b.second
                         /\ a.frame = b.frame)

C15_Witness ==
    /\ op = "compare"
    /\ a.minute < b.minute
    /\ a.second > b.second
    /\ b.minute = c.minute
    /\ b.second < c.second
    /\ b.frame > c.frame
    /\ out.ab.lt /\ out.bc.lt /\ out.ac.lt

\* C16: the derived operators agree with < and ==: a <= b iff (a < b or
\* a == b); a > b iff b < a; a >= b iff (a > b or a == b) iff not (a < b);
\* partial_cmp(a, b) is Less, Equal or Greater exactly when a < b, a == b or
\* a > b.
C16_DerivedOperatorsAgree ==
    op = "compare"
    => /\ out.ab.le <=> (out.ab.lt \/ out.ab.eq)
       /\ out.ab.gt <=> out.ba.lt
       /\ out.ab.ge <=> (out.ab.gt \/ out.ab.eq)
       /\ out.ab.ge <=> ~out.ab.lt
       /\ out.ab.partial_cmp = "Less" <=> out.ab.lt
       /\ out.ab.partial_cmp = "Equal" <=> out.ab.eq
       /\ out.ab.partial_cmp = "Greater" <=> out.ab.gt

C16_Witness ==
    /\ op = "compare"
    /\ a.minute = b.minute
    /\ a.second = b.second
    /\ a.frame > b.frame
    /\ out.ab.gt /\ out.ab.ge /\ ~out.ab.le
    /\ out.ab.partial_cmp = "Greater"
    /\ out.ba.partial_cmp = "Less"

\* some interval of the list has lo <= x <= hi in the lexicographic order
InSomeInterval(x, intervals) ==
    \E i \in 1..Len(intervals) :
        /\ LexRank(intervals[i][1]) <= LexRank(x)
        /\ LexRank(x) <= LexRank(intervals[i][2])

\* C17: in_range(intervals) is true iff some interval [lo, hi] of the
\* collection has lo <= self and self <= hi, both ends inclusive, so an empty
\* collection gives false; matches_range(None) is true and
\* matches_range(Some(v)) equals in_range(v).
C17_RangeTests ==
    /\ op = "in_range"
       => /\ out <=> InSomeInterval(a, range[1])
          /\ range[1] = <<>> => ~out
          /\ (\E i \in 1..Len(range[1]) : a \in {range[1][i][1], range[1][i][2]}
                   /\ LexRank(range[1][i][1]) <= LexRank(range[1][i][2]))
             => out
    /\ op = "matches_range"
       => /\ range = <<>> => out
          /\ range # <<>> => (out <=> InSomeInterval(a, range[1]))

C17_Witness ==
    /\ op = "in_range"
    /\ Len(range[1]) = 2
    /\ a = range[1][2][2]
    /\ ~InSomeInterval(a, <<range[1][1]>>)
    /\ lt(range[1][2][1], a)
    /\ out


\* ------------------------------------------------------------------------
\* Staged builder
\* ------------------------------------------------------------------------
Built == builder.state = "Consumed"

ThroughCalls == SelectSeq(calls, LAMBDA k : k.m = "through")

EaseCalls == SelectSeq(calls, LAMBDA k : k.m = "ease")

\* C18: the variant over() produces depends only on the number n of
\* through() calls: n = 0 gives Linear, carrying the easing given to ease()
\* or Linear when ease() was never called; n = 2 gives Cubic; every other n
\* gives Bezier with exactly n + 2 points.
C18_VariantByControlCount ==
    Built =>
        LET n == Len(ThroughCalls)
        IN  /\ n = 0 =>
                /\ interp.kind = "Linear"
                /\ interp.easing =
                       IF EaseCalls = <<>> THEN "Linear"
                       ELSE EaseCalls[Len(EaseCalls)].arg
            /\ n = 2 => interp.kind = "Cubic"
            /\ n \notin {0, 2} =>
                /\ interp.kind = "Bezier"
                /\ Len(interp.points) = n + 2

C18_Witness ==
    /\ Built
    /\ Len(ThroughCalls) = 3
    /\ interp.kind = "Bezier"
    /\ Len(interp.points) = 5
    /\ op = "at"

\* the outcome of making the calls cs[i], cs[i + 1], ... on the builder b
RECURSIVE Replay(_, _, _)
Replay(bld, cs, i) ==
    IF i > Len(cs) THEN bld
    ELSE LET k == cs[i]
         IN  CASE k.m = "from" -> Replay(from(k.arg), cs, i + 1)
               [] k.m = "to" -> Replay(to(bld, k.arg), cs, i + 1)
               [] k.m = "ease" -> Replay(builder_ease(bld, k.arg), cs, i + 1)
               [] k.m = "through" -> Replay(through(bld, k.arg), cs, i + 1)
               [] k.m = "over" -> over(bld, k.arg[1], k.arg[2])

WithoutEase == SelectSeq(calls, LAMBDA k : k.m # "ease")

\* C19: once at least one control point was given with through(), ease()
\* calls anywhere in the sequence have no effect: the interpolator over()
\* returns, and each value at(time, fps) returns from it, are those of the
\* same call sequence with the ease() calls removed.
C19_EaseIgnoredWithControlPoints ==
    (Built /\ Len(ThroughCalls) >= 1) =>
        LET plain == Replay(NoBuilder, WithoutEase, 1)
        IN  /\ interp = plain
            /\ op \in {"at", "panic"} =>
                   LET r == at(plain, time, fps)
                   IN  /\ (op = "panic") = r.panicked
                       /\ op = "at" => result = r.value

C19_Witness ==
    /\ Built
    /\ Len(calls) = 6
    /\ calls[3].m = "through"
    /\ calls[4].m = "ease"
    /\ calls[4].arg = "EaseIn"
    /\ calls[5].m = "through"
    /\ interp.kind = "Cubic"
    /\ op = "at"
    /\ progress = <<Rat(1, 2)>>

\* C20: in every sequence of builder operations an Interpolator exists only
\* once over() was called; over() comes only after from() then to(); ease()
\* and through() come only after to() and before over(); nothing is
\* evaluated with at() before over().
C20_StagedConstruction ==
    /\ \A i \in 1..Len(calls) :
          /\ calls[i].m = "from" <=> i = 1
          /\ calls[i].m = "to" <=> i = 2
          /\ calls[i].m = "over" => (i >= 3 /\ i = Len(calls))
          /\ calls[i].m \in {"from", "to", "ease", "through", "over"}
    /\ (interp # NoInterp) <=>
          (calls # <<>> /\ calls[Len(calls)].m = "over")
    /\ (interp # NoInterp) <=> Built
    /\ op \in {"ready", "at", "panic"} => Built

C20_Witness ==
    /\ Built
    /\ Len(calls) = 5
    /\ calls[3].m = "ease"
    /\ calls[4].m = "through"
    /\ calls[5].m = "over"
    /\ interp.kind = "Bezier"
    /\ op = "at"

\* ------------------------------------------------------------------------
\* Cubic and Bezier curves
\* ------------------------------------------------------------------------
\* the Cubic interpolator with the four points of a Bezier one, and back
AsCubic(i) ==
    cubic(i.points[1], i.points[2], i.points[3], i.points[4], i.start, i.end)

AsBezier(i) == bezier(<<i.p0, i.p1, i.p2, i.p3>>, i.start, i.end)

\* C21: for any four points, start, end, time and fps, the Bezier
\* interpolator over [p0, p1, p2, p3] and the Cubic interpolator over
\* p0, p1, p2, p3 return the same value from at(time, fps).
C21_DeCasteljauMatchesCubic ==
    op = "at" =>
        /\ (interp.kind = "Bezier" /\ Len(interp.points) = 4) =>
               LET r == at(AsCubic(interp), time, fps)
               IN  ~r.panicked /\ result = r.value
        /\ interp.kind = "Cubic" =>
               LET r == at(AsBezier(interp), time, fps)
               IN  ~r.panicked /\ result = r.value

C21_Witness ==
    /\ op = "at"
    /\ interp.kind = "Bezier"
    /\ interp.points = <<0, 1, 2 ^ 25, 1>>
    /\ progress = <<Rat(1, 2)>>

\* the pairwise lerps of adjacent elements, applied k times
RECURSIVE Reduced(_, _, _)
Reduced(w, t, k) ==
    IF k = 0 THEN w
    ELSE Reduced([i \in 1..(Len(w) - 1) |-> lerp(w[i], w[i + 1], t)], t, k - 1)

C22_PassInvariant ==
    LET n == Len(args.points)
    IN  /\ op = "loop" =>
            /\ passes <= n - 1
            /\ Len(working) = n - passes
            /\ working = Reduced(args.points, args.t, passes)
        /\ op = "return" =>
            /\ n >= 1
            /\ passes = n - 1
            /\ ret = <<Reduced(args.points, args.t, n - 1)[1]>>
            /\ ret = <<de_casteljau(args.points, args.t)>>
            /\ n = 1 => ret = <<args.points[1]>>
        /\ op = "panic" => n = 0

\* C22: for n >= 1 points and every t, de_casteljau terminates after exactly
\* n - 1 passes, each replacing a working sequence of length k by the k - 1
\* lerps of adjacent elements, and returns the one remaining value; a
\* single point is returned unchanged.
C22_DeCasteljauTerminates ==
    /\ []C22_PassInvariant
    /\ (Len(args.points) >= 1) ~> (op = "return")

C22_Witness ==
    /\ op = "return"
    /\ Len(args.points) = 4
    /\ passes = 3
    /\ args.t = Rat(1, 2)
    /\ args.points[1] # args.points[4]

FirstPoint(i) == IF i.kind = "Cubic" THEN i.p0 ELSE i.points[1]

LastPoint(i) == IF i.kind = "Cubic" THEN i.p3 ELSE i.points[Len(i.points)]

\* C23: a Cubic or Bezier interpolator with at least one point and
\* start < end returns the first point at every time <= start and the last
\* point at every time >= end; with start == end it returns the last point
\* at every time.
C23_CurveEndpoints ==
    (op = "at" /\ interp.kind \in {"Cubic", "Bezier"}) =>
        /\ lt(interp.start, interp.end) =>
            /\ le(time, interp.start) => result = F(FirstPoint(interp))
            /\ ge(time, interp.end) => result = F(LastPoint(interp))
        /\ eq(interp.start, interp.end) => result = F(LastPoint(interp))

NoElements(i) ==
    \/ i.kind = "Keyframes" /\ Len(i.keyframes) = 0
    \/ i.kind = "Bezier" /\ Len(i.points) = 0

\* C24: at(time, fps) on a Keyframes interpolator with zero keyframes or on
\* a Bezier interpolator with zero points never returns a value, whatever
\* the time and fps: the evaluation halts, and no fallback result appears.
C24_EmptyIsFatal ==
    NoElements(interp) =>
        /\ op \in {"ready", "panic"}
        /\ result = F(0)
        /\ at(interp, time, fps).panicked

C24_Witness ==
    /\ op = "panic"
    /\ interp.kind = "Bezier"
    /\ interp.points = <<>>
    /\ eq(interp.start, interp.end)

C24_WitnessKeyframes ==
    /\ op = "panic"
    /\ interp.kind = "Keyframes"
    /\ interp.keyframes = <<>>

\* ------------------------------------------------------------------------
\* Interpolatable
\* ------------------------------------------------------------------------
\* C25: for f32, [f32; 2] and [f32; 4], all x, y and t: x.lerp(x, t) == x,
\* x.lerp(y, 0) == x and x.lerp(y, 1) == y, the array lerp being the f32
\* lerp of each component.
C25_LerpIdentities ==
    (op = "return" /\ args.fn = "lerp") =>
        /\ args.self = args.other => ret = <<args.self>>
        /\ args.t = F(0) => ret = <<args.self>>
        /\ args.t = F(1) => ret = <<args.other>>
        /\ args.type # "f32" =>
               ret = <<[i \in 1..Len(args.self) |->
                          lerp(args.self[i], args.other[i], args.t)]>>

\* the identities of C25 other than x.lerp(y, 1) == y
C25_ExactIdentities ==
    (op = "return" /\ args.fn = "lerp") =>
        /\ args.self = args.other => ret = <<args.self>>
        /\ args.t = F(0) => ret = <<args.self>>
        /\ args.type # "f32" =>
               ret = <<[i \in 1..Len(args.self) |->
                          lerp(args.self[i], args.other[i], args.t)]>>

\* ------------------------------------------------------------------------
\* EasingFunction
\* ------------------------------------------------------------------------
Eased == op = "return" /\ args.fn = "ease"

InUnit(x) == FLeLong(F(0), x) /\ FLeLong(x, F(1))

\* clamping first, the end values, the range, and the meeting of the two
\* branches of EaseInOut
EaseFrame ==
    /\ FLt(args.t, F(0)) => ret = <<ease(args.self, F(0))>>
    /\ FLt(F(1), args.t) => ret = <<ease(args.self, F(1))>>
    /\ args.t = F(0) => ret = <<F(0)>>
    /\ args.t = F(1) => ret = <<F(1)>>
    /\ InUnit(ret[1])
    /\ (args.self = "EaseInOut" /\ args.t = Rat(1, 2)) =>
           /\ ease_in_out_low(args.t) = ease_in_out_high(args.t)
           /\ ret = <<ease_in_out_high(args.t)>>

EaseSlack == Rat(3, 2 ^ (F32Digits - 1))

\* t * t, 2.0 * t * t and t itself round in step with t
RoundsInStep(e, t) ==
    \/ e \in {"Linear", "EaseIn"}
    \/ e = "EaseInOut" /\ FLt(t, Rat(1, 2))

Precedes(x, y) ==
    \/ x.minute < y.minute
    \/ x.minute = y.minute /\ x.second < y.second
    \/ x.minute = y.minute /\ x.second = y.second /\ x.frame < y.frame

C27_LegacyLexicographic ==
    op = "compare" =>
        /\ out.ab.lt <=> Precedes(a, b)
        /\ out.ab.gt <=> out.ba.lt

\* ------------------------------------------------------------------------
\* C28: the builder keeps the supplied values in order. After exactly two
\* through() calls the Cubic has p0 = the from value, p1 = the first
\* through() argument, p2 = the second and p3 = the to value; after any
\* other non-zero number of through() calls the Bezier points are the from
\* value, the through() arguments in call order, and the to value.
\* ------------------------------------------------------------------------
ControlArgs == [i \in 1..Len(ThroughCalls) |-> ThroughCalls[i].arg]

C28_BuilderKeepsOrder ==
    (Built /\ Len(ThroughCalls) >= 1) =>
        IF Len(ThroughCalls) = 2
        THEN /\ interp.kind = "Cubic"
             /\ interp.p0 = calls[1].arg
             /\ interp.p1 = ControlArgs[1]
             /\ interp.p2 = ControlArgs[2]
             /\ interp.p3 = calls[2].arg
        ELSE /\ interp.kind = "Bezier"
             /\ interp.points =
                    <<calls[1].arg>> \o ControlArgs \o <<calls[2].arg>>

\* from(0).to(10).through(7).through(3).through(3), sampled
C28_Witness ==
    /\ Built
    /\ ControlArgs = <<7, 3, 3>>
    /\ interp.kind = "Bezier"
    /\ interp.points = <<0, 7, 3, 3, 10>>
    /\ op = "at"

\* from(10).to(0).through(3).through(7), sampled
C28_WitnessCubic ==
    /\ Built
    /\ ControlArgs = <<3, 7>>
    /\ interp.kind = "Cubic"
    /\ interp.p0 = 10
    /\ interp.p1 = 3
    /\ interp.p2 = 7
    /\ interp.p3 = 0
    /\ op = "at"

\* ------------------------------------------------------------------------
\* Frame loop of Canvas::save
\* ------------------------------------------------------------------------
Normal(t, f) == t.second < SecondsPerMinute /\ t.frame < f

Frames == as_num_frames(args.end, fps)

\* the stamps at which the loop body has rendered the entities so far are
\* the normalised stamps with frame counts 1, 2, ..., in this order
C29_SampledInOrder ==
    (args.fn = "save" /\ Normal(args.end, fps)) =>
        /\ Len(sampled) = passes
        /\ passes <= Frames
        /\ \A i \in 1..Len(sampled) :
              /\ as_num_frames(sampled[i].entities, fps) = i
              /\ Normal(sampled[i].entities, fps)
              /\ sampled[i].entities # new(0, 0, 0)
              /\ i > 1 => lt(sampled[i - 1].entities, sampled[i].entities)
        /\ op = "return" =>
              /\ passes = Frames
              /\ current_ = args.end
              /\ Frames >= 1 => sampled[Frames].entities = args.end

\* C29: for every fps >= 1 and every end with second < 60 and frame < fps
\* the frame loop ends, after exactly as_num_frames(end, fps) iterations;
\* the entities are sampled at exactly the stamps with frame counts 1 to
\* as_num_frames(end, fps), in strictly increasing order, so never at
\* (0,0,0), and last at end.
C29_FrameLoopTerminates ==
    /\ []C29_SampledInOrder
    /\ (args.fn = "save" /\ Normal(args.end, fps)) ~> (op = "return")

\* save(.., end = (1,0,1)) at 2 fps has returned after 121 frames
C29_Witness ==
    /\ args.fn = "save"
    /\ fps = 2
    /\ args.end = new(1, 0, 1)
    /\ op = "return"
    /\ passes = 121
    /\ sampled[passes].entities = args.end
    /\ sampled[1].entities = new(0, 0, 1)

\* ------------------------------------------------------------------------
\* TimeStamp order against frame-count order
\* ------------------------------------------------------------------------
Count(t) == as_num_frames(t, fps)

\* the keyframes between which at() interpolated contain `time` both in the
\* TimeStamp order and in frame counts, and the progress is the unclamped
\* quotient of elapsed frames over the frames between them
BracketAgrees ==
    \E i \in 1..(Len(interp.keyframes) - 1) :
        LET start_kf == interp.keyframes[i].time
            end_kf == interp.keyframes[i + 1].time
        IN  /\ le(start_kf, time)
            /\ lt(time, end_kf)
            /\ Count(start_kf) <= Count(time)
            /\ Count(time) < Count(end_kf)
            /\ progress[1] = FDiv(F(Count(time) - Count(start_kf)),
                                  F(Count(end_kf) - Count(start_kf)))
            /\ FLe(F(0), progress[1])
            /\ FLt(progress[1], F(1))
            /\ (progress[1] = F(0)) <=> eq(time, start_kf)

\* C30: for fps >= 1 and TimeStamps a, b with second < 60 and frame < fps,
\* a < b exactly when a's frame count is below b's and a == b exactly when
\* the frame counts are equal; so the keyframes that bracket a time in
\* TimeStamp order bracket it in frame counts too, where the progress is
\* computed; and every increment(fps) yields a strictly greater TimeStamp.
C30_OrderAgreesWithFrameCount ==
    /\ (op = "compare" /\ Normal(a, fps) /\ Normal(b, fps)) =>
          /\ out.ab.lt <=> (Count(a) < Count(b))
          /\ out.ab.eq <=> (Count(a) = Count(b))
          /\ out.ab.gt <=> (Count(a) > Count(b))
    /\ (/\ op = "at"
        /\ progress # <<>>
        /\ Normal(a, fps)
        /\ Normal(b, fps)
        /\ Normal(time, fps)) => BracketAgrees
    /\ op = "increment" => lt(self0, ts)

\* (0,59,1) < (1,0,0) at 2 fps, frame counts 119 and 120
C30_Witness ==
    /\ op = "compare"
    /\ fps = 2
    /\ a = new(0, LastSecond, 1)
    /\ b = new(1, 0, 0)
    /\ out.ab.lt
    /\ ~out.ab.eq
    /\ Count(a) + 1 = Count(b)

\* at 2 fps, (0,1,0) lies between the keyframes at (0,0,1) and (1,0,0)
C30_WitnessBracket ==
    /\ op = "at"
    /\ fps = 2
    /\ a = new(0, 0, 1)
    /\ b = new(1, 0, 0)
    /\ time = new(0, 1, 0)
    /\ progress = <<Rat(1, 119)>>

\* (0,59,1) incremented at 2 fps is (1,0,0)
C30_WitnessIncrement ==
    /\ op = "increment"
    /\ fps = 2
    /\ self0 = new(0, LastSecond, 1)
    /\ ts = new(1, 0, 0)

====
